---- MODULE Spec2Model ----
(***************************************************************************)
(* etl.py: the song and log pipelines, the batch driver process_data and   *)
(* main, as a state machine over the statements sent to the database.      *)
(* One action per statement of the script that touches the cursor, the     *)
(* connection, the file system or stdout.                                  *)
(***************************************************************************)
EXTENDS Integers, Sequences, FiniteSets, TLC

\* Most files under data/song_data, most files under data/log_data, most
\* records in the log directory as a whole, most invocations of the script.
MaxSongFiles == 2
MaxLogFiles == 2
MaxRecs == 2
MaxRuns == 2

None == "None"

(***************************************************************************)
(* Inputs: the contents of the two data directories.                       *)
(***************************************************************************)

\* A song file: one JSON object.
SongRecord(sid, title, aid, aname, dur) ==
    [song_id |-> sid, title |-> title, artist_id |-> aid, year |-> 0,
     duration |-> dur, artist_name |-> aname, artist_location |-> "L",
     artist_latitude |-> 0, artist_longitude |-> 0]

\* Two songs of the same artist.
SongFiles ==
    { SongRecord("S1", "T1", "A1", "N1", 269),
      SongRecord("S2", "T2", "A1", "N1", 180) }

\* A line of a log file.
LogRecord(page, ts, uid, level, song, artist, length) ==
    [page |-> page, ts |-> ts, userId |-> uid, firstName |-> "F",
     lastName |-> "L", gender |-> "G", level |-> level, song |-> song,
     artist |-> artist, length |-> length, sessionId |-> 7,
     location |-> "X", userAgent |-> "UA"]

\* A play of a catalogued song, a play by the same user at another level
\* whose duration differs from the catalogue's, a page view, and a play by
\* a second user at the timestamp of the first record.
LogRecords ==
    { LogRecord("NextSong", 0, 1, "free", "T1", "N1", 269),
      LogRecord("NextSong", 90061001, 1, "paid", "T1", "N1", 270),
      LogRecord("Home", 3600000, 1, "paid", None, None, 0),
      LogRecord("NextSong", 0, 2, "free", "T2", "N1", 180) }

SeqsUpTo(S, n) == UNION { [1..m -> S] : m \in 0..n }

RECURSIVE Sum(_)
Sum(lens) == IF lens = <<>> THEN 0 ELSE Head(lens) + Sum(Tail(lens))

\* The records cut into consecutive files of the given lengths.
RECURSIVE Split(_, _)
Split(recs, lens) ==
    IF lens = <<>> THEN <<>>
    ELSE <<SubSeq(recs, 1, Head(lens))>>
         \o Split(SubSeq(recs, Head(lens) + 1, Len(recs)), Tail(lens))

SongDirs == SeqsUpTo(SongFiles, MaxSongFiles)

\* Every way to put at most MaxRecs records into at most MaxLogFiles files,
\* files without a record included.
LogDirs ==
    { Split(p[1], p[2]) :
        p \in { q \in SeqsUpTo(LogRecords, MaxRecs)
                        \X SeqsUpTo(0..MaxRecs, MaxLogFiles) :
                  Sum(q[2]) = Len(q[1]) } }

VARIABLES
    songDir,     \* the files under data/song_data, in enumeration order
    logDir,      \* the files under data/log_data, in enumeration order
    db,          \* the committed transactions, in commit order
    tx,          \* the statements of the open transaction
    conn,        \* the connection: times opened, closed, committed
    printed,     \* the lines written to stdout by this run
    run,         \* the number of this invocation of the script
    pc,          \* the statement the script is at
    raised,      \* an exception has propagated out of main
    call,        \* which of main's process_data calls is running
    all_files,   \* process_data: the enumerated files
    i,           \* process_data: the loop counter of enumerate(all_files, 1)
    song_df,     \* process_song_file: df
    df,          \* process_log_file: df, the kept records
    time_df,     \* process_log_file: time_df
    user_df,     \* process_log_file: user_df
    k,           \* process_log_file: rows done by the iterrows loop at pc
    ids          \* process_log_file: <<songid, artistid>>

driver == <<call, all_files, i>>
locals == <<song_df, df, time_df, user_df, k, ids>>
inputs == <<songDir, logDir>>
vars == <<songDir, logDir, db, tx, conn, printed, run, pc, raised, call,
          all_files, i, song_df, df, time_df, user_df, k, ids>>

(***************************************************************************)
(* sql_queries: the statements, by what the specification says of them.    *)
(***************************************************************************)

Stmt(name, args) == [stmt |-> name, args |-> args]

RECURSIVE Flatten(_)
Flatten(batches) ==
    IF batches = <<>> THEN <<>> ELSE Head(batches) \o Flatten(Tail(batches))

RECURSIVE ArgsOf(_, _)
ArgsOf(stmts, name) ==
    IF stmts = <<>> THEN <<>>
    ELSE IF Head(stmts).stmt = name
         THEN <<Head(stmts).args>> \o ArgsOf(Tail(stmts), name)
         ELSE ArgsOf(Tail(stmts), name)

Occurrences(row, rows) == Cardinality({ n \in 1..Len(rows) : rows[n] = row })

\* An insert adds its row to its table, whatever the table holds: the rows of
\* a table are the arguments of the inserts into it, in execution order.
Table(stmts, insert) == ArgsOf(stmts, insert)

\* song_select: the (song_id, artist_id) pairs of the songs joined to their
\* artists that match the title, the artist's name and the duration.
SongSelect(stmts, song, artist, length) ==
    LET songs == Table(stmts, "song_table_insert")
        artists == Table(stmts, "artist_table_insert")
    IN  { <<songs[s][1], artists[a][1]>> :
            <<s, a>> \in { p \in (1..Len(songs)) \X (1..Len(artists)) :
                /\ songs[p[1]][3] = artists[p[2]][1]
                /\ songs[p[1]][2] = song
                /\ artists[p[2]][2] = artist
                /\ songs[p[1]][5] = length } }

\* cur.fetchone(): a row of the result, or None (here <<>>) when it is empty.
Fetchone(result) == IF result = {} THEN { <<>> } ELSE result

(***************************************************************************)
(* The transforms of process_song_file and process_log_file.               *)
(***************************************************************************)

\* year and duration in each other's place.
MutSongData(r) == <<r.song_id, r.title, r.artist_id, r.duration, r.year>>

SongData(r) == <<r.song_id, r.title, r.artist_id, r.year, r.duration>>

ArtistData(r) ==
    <<r.artist_id, r.artist_name, r.artist_location, r.artist_latitude,
      r.artist_longitude>>

\* The filter left out: every record is kept.
MutFilterNextSong(recs) == recs

\* df[df["page"] == "NextSong"]
RECURSIVE FilterNextSong(_)
FilterNextSong(recs) ==
    IF recs = <<>> THEN <<>>
    ELSE IF Head(recs).page = "NextSong"
         THEN <<Head(recs)>> \o FilterNextSong(Tail(recs))
         ELSE FilterNextSong(Tail(recs))

\* pd.to_datetime(ts, unit="ms"), for the instants of January 1970.
ToDatetime(ts) ==
    [year |-> 1970, month |-> 1, day |-> 1 + (ts \div 86400000),
     hour |-> (ts \div 3600000) % 24, minute |-> (ts \div 60000) % 60,
     second |-> (ts \div 1000) % 60, millisecond |-> ts % 1000]

\* The timestamp of the row cut to whole seconds.
MutTimeRow(t) ==
    <<[t EXCEPT !.millisecond = 0], t.hour, t.day, 1 + ((t.day + 2) \div 7),
      t.month, t.year, (t.day + 2) % 7>>

\* The row of time_data for a timestamp t of January 1970: 1 January 1970
\* was a Thursday (weekday 3) of ISO week 1.
TimeRow(t) ==
    <<t, t.hour, t.day, 1 + ((t.day + 2) \div 7), t.month, t.year,
      (t.day + 2) % 7>>

TimeData(recs) == [n \in 1..Len(recs) |-> TimeRow(ToDatetime(recs[n].ts))]

UserRow(r) == <<r.userId, r.firstName, r.lastName, r.gender, r.level>>

\* drop_duplicates on userId: the first record of each user only.
MutUserData(recs) ==
    LET first == { n \in 1..Len(recs) :
                     \A m \in 1..(n - 1) : recs[m].userId # recs[n].userId }
        Pick[n \in 0..Len(recs)] ==
            IF n = 0 THEN <<>>
            ELSE IF n \in first THEN Append(Pick[n - 1], UserRow(recs[n]))
                 ELSE Pick[n - 1]
    IN  Pick[Len(recs)]

\* user_df = df[["userId", "firstName", "lastName", "gender", "level"]]
UserData(recs) == [n \in 1..Len(recs) |-> UserRow(recs[n])]

\* The artist id of the row dropped.
MutResolveIds(results) ==
    IF results # <<>> THEN <<results[1], None>> ELSE <<None, None>>

\* if results: songid, artistid = results / else: songid, artistid = None, None
ResolveIds(results) ==
    IF results # <<>> THEN <<results[1], results[2]>> ELSE <<None, None>>

SongplayData(row, songid, artistid) ==
    <<ToDatetime(row.ts), row.userId, row.level, songid, artistid,
      row.sessionId, row.location, row.userAgent>>

(***************************************************************************)
(* main and process_data.                                                  *)
(***************************************************************************)

\* The two calls in the other order.
MutMainCalls ==
    << [filepath |-> "data/log_data", func |-> "process_log_file"],
       [filepath |-> "data/song_data", func |-> "process_song_file"] >>

\* The two process_data calls of main, in order.
MainCalls ==
    << [filepath |-> "data/song_data", func |-> "process_song_file"],
       [filepath |-> "data/log_data", func |-> "process_log_file"] >>

\* os.walk + glob of a root path.
Walk(filepath) == IF filepath = "data/song_data" THEN songDir ELSE logDir

NoSong == SongRecord(None, None, None, None, 0)
NoIds == <<None, None>>

Init ==
    /\ songDir \in SongDirs
    /\ logDir \in LogDirs
    /\ db = <<>>
    /\ tx = <<>>
    /\ conn = [opened |-> 0, closed |-> 0, commits |-> 0]
    /\ printed = <<>>
    /\ run = 1
    /\ pc = "connect"
    /\ raised = FALSE
    /\ call = 0
    /\ all_files = <<>>
    /\ i = 0
    /\ song_df = NoSong
    /\ df = <<>>
    /\ time_df = <<>>
    /\ user_df = <<>>
    /\ k = 0
    /\ ids = NoIds

At(p) == ~raised /\ pc = p

\* conn = psycopg2.connect(...); cur = conn.cursor()
Connect ==
    /\ At("connect")
    /\ conn' = [conn EXCEPT !.opened = @ + 1]
    /\ tx' = <<>>
    /\ call' = 1
    /\ pc' = "process_data"
    /\ UNCHANGED <<inputs, db, printed, run, raised, all_files, i, locals>>

\* process_data: enumerate the files, print how many were found.
ProcessData ==
    /\ At("process_data")
    /\ all_files' = Walk(MainCalls[call].filepath)
    /\ i' = 0
    /\ printed' = Append(printed,
          [fmt |-> "{} files found in {}", a |-> Len(all_files'),
           b |-> MainCalls[call].filepath])
    /\ pc' = "for_file"
    /\ UNCHANGED <<inputs, db, tx, conn, run, raised, call, locals>>

\* for i, datafile in enumerate(all_files, 1): func(cur, datafile)
ForFile ==
    /\ At("for_file")
    /\ i < Len(all_files)
    /\ i' = i + 1
    /\ pc' = IF MainCalls[call].func = "process_song_file"
             THEN "read_song" ELSE "read_log"
    /\ UNCHANGED <<inputs, db, tx, conn, printed, run, raised, call,
                   all_files, locals>>

\* The loop is exhausted: process_data returns to main.
ProcessDataReturn ==
    /\ At("for_file")
    /\ i = Len(all_files)
    /\ all_files' = <<>>
    /\ i' = 0
    /\ IF call < Len(MainCalls)
       THEN call' = call + 1 /\ pc' = "process_data"
       ELSE call' = call /\ pc' = "close"
    /\ UNCHANGED <<inputs, db, tx, conn, printed, run, raised, locals>>

\* The commit left out of the loop: the counter is printed, nothing commits.
MutCommit ==
    /\ At("commit")
    /\ printed' = Append(printed,
          [fmt |-> "{}/{} files processed.", a |-> i, b |-> Len(all_files)])
    /\ pc' = "for_file"
    /\ UNCHANGED <<inputs, db, tx, conn, run, raised, driver, locals>>

\* conn.commit(); print the progress counter.
Commit ==
    /\ At("commit")
    /\ db' = Append(db, tx)
    /\ tx' = <<>>
    /\ conn' = [conn EXCEPT !.commits = @ + 1]
    /\ printed' = Append(printed,
          [fmt |-> "{}/{} files processed.", a |-> i, b |-> Len(all_files)])
    /\ pc' = "for_file"
    /\ UNCHANGED <<inputs, run, raised, driver, locals>>

\* conn.close() forgotten.
MutClose ==
    /\ At("close")
    /\ pc' = "done"
    /\ UNCHANGED <<inputs, db, tx, conn, printed, run, raised, driver, locals>>

\* conn.close()
Close ==
    /\ At("close")
    /\ conn' = [conn EXCEPT !.closed = @ + 1]
    /\ pc' = "done"
    /\ UNCHANGED <<inputs, db, tx, printed, run, raised, driver, locals>>

(***************************************************************************)
(* process_song_file.                                                      *)
(***************************************************************************)

ReadSongFile ==
    /\ At("read_song")
    /\ song_df' = all_files[i]
    /\ pc' = "insert_song"
    /\ UNCHANGED <<inputs, db, tx, conn, printed, run, raised, driver,
                   df, time_df, user_df, k, ids>>

InsertSong ==
    /\ At("insert_song")
    /\ tx' = Append(tx, Stmt("song_table_insert", SongData(song_df)))
    /\ pc' = "insert_artist"
    /\ UNCHANGED <<inputs, db, conn, printed, run, raised, driver, locals>>

InsertArtist ==
    /\ At("insert_artist")
    /\ tx' = Append(tx, Stmt("artist_table_insert", ArtistData(song_df)))
    /\ song_df' = NoSong
    /\ pc' = "commit"
    /\ UNCHANGED <<inputs, db, conn, printed, run, raised, driver,
                   df, time_df, user_df, k, ids>>

(***************************************************************************)
(* process_log_file.                                                       *)
(***************************************************************************)

\* Read the file, keep the NextSong records, build time_df. A file without
\* a record has no "page" column: the filter raises (see Raise).
ReadLogFile ==
    /\ At("read_log")
    /\ all_files[i] # <<>>
    /\ df' = FilterNextSong(all_files[i])
    /\ time_df' = TimeData(df')
    /\ k' = 0
    /\ pc' = "time_loop"
    /\ UNCHANGED <<inputs, db, tx, conn, printed, run, raised, driver,
                   song_df, user_df, ids>>

\* The insert skipped for a timestamp the table or the transaction has.
MutInsertTime ==
    /\ At("time_loop")
    /\ k < Len(time_df)
    /\ tx' = IF Occurrences(time_df[k + 1],
                            ArgsOf(Flatten(db) \o tx, "time_table_insert")) > 0
             THEN tx
             ELSE Append(tx, Stmt("time_table_insert", time_df[k + 1]))
    /\ k' = k + 1
    /\ UNCHANGED <<inputs, db, conn, printed, run, pc, raised, driver,
                   song_df, df, time_df, user_df, ids>>

InsertTime ==
    /\ At("time_loop")
    /\ k < Len(time_df)
    /\ tx' = Append(tx, Stmt("time_table_insert", time_df[k + 1]))
    /\ k' = k + 1
    /\ UNCHANGED <<inputs, db, conn, printed, run, pc, raised, driver,
                   song_df, df, time_df, user_df, ids>>

\* The time loop is exhausted: user_df = df[[...]]
EndTimeLoop ==
    /\ At("time_loop")
    /\ k = Len(time_df)
    /\ user_df' = UserData(df)
    /\ k' = 0
    /\ pc' = "user_loop"
    /\ UNCHANGED <<inputs, db, tx, conn, printed, run, raised, driver,
                   song_df, df, time_df, ids>>

InsertUser ==
    /\ At("user_loop")
    /\ k < Len(user_df)
    /\ tx' = Append(tx, Stmt("user_table_insert", user_df[k + 1]))
    /\ k' = k + 1
    /\ UNCHANGED <<inputs, db, conn, printed, run, pc, raised, driver,
                   song_df, df, time_df, user_df, ids>>

EndUserLoop ==
    /\ At("user_loop")
    /\ k = Len(user_df)
    /\ k' = 0
    /\ pc' = "songplay_loop"
    /\ UNCHANGED <<inputs, db, tx, conn, printed, run, raised, driver,
                   song_df, df, time_df, user_df, ids>>

\* cur.execute(song_select, ...); results = cur.fetchone(); the if/else.
\* The select sees the committed rows and those of the open transaction.
LookupSong ==
    /\ At("songplay_loop")
    /\ k < Len(df)
    /\ LET row == df[k + 1]
           args == <<row.song, row.artist, row.length>>
       IN  /\ tx' = Append(tx, Stmt("song_select", args))
           /\ \E results \in Fetchone(SongSelect(Flatten(db) \o tx,
                                                 row.song, row.artist, row.length)) :
                 ids' = ResolveIds(results)
    /\ pc' = "songplay_insert"
    /\ UNCHANGED <<inputs, db, conn, printed, run, raised, driver,
                   song_df, df, time_df, user_df, k>>

InsertSongplay ==
    /\ At("songplay_insert")
    /\ tx' = Append(tx, Stmt("songplay_table_insert",
                             SongplayData(df[k + 1], ids[1], ids[2])))
    /\ k' = k + 1
    /\ pc' = "songplay_loop"
    /\ UNCHANGED <<inputs, db, conn, printed, run, raised, driver,
                   song_df, df, time_df, user_df, ids>>

\* The songplay loop is exhausted: process_log_file returns.
EndSongplayLoop ==
    /\ At("songplay_loop")
    /\ k = Len(df)
    /\ df' = <<>>
    /\ time_df' = <<>>
    /\ user_df' = <<>>
    /\ k' = 0
    /\ ids' = NoIds
    /\ pc' = "commit"
    /\ UNCHANGED <<inputs, db, tx, conn, printed, run, raised, driver, song_df>>

(***************************************************************************)
(* Failure and re-invocation.                                              *)
(***************************************************************************)

\* The statements that call the database, the file system or pandas.
RaisingPositions ==
    { "connect", "process_data", "read_song", "insert_song", "insert_artist",
      "read_log", "time_loop", "user_loop", "songplay_loop",
      "songplay_insert", "commit", "close" }

\* The commit put in a finally clause: it runs as the exception passes.
MutRaise ==
    /\ ~raised
    /\ pc \in RaisingPositions
    /\ raised' = TRUE
    /\ db' = Append(db, tx)
    /\ tx' = <<>>
    /\ conn' = [conn EXCEPT !.commits = @ + 1]
    /\ UNCHANGED <<inputs, printed, run, pc, driver, locals>>

\* The call at pc raises: nothing catches it, the script ends there.
Raise ==
    /\ ~raised
    /\ pc \in RaisingPositions
    /\ raised' = TRUE
    /\ UNCHANGED <<inputs, db, tx, conn, printed, run, pc, driver, locals>>

\* The script is run again after a run that completed: a new process, a new
\* connection, the same directories, the database as the last run left it.
Rerun ==
    /\ At("done")
    /\ run < MaxRuns
    /\ run' = run + 1
    /\ conn' = [opened |-> 0, closed |-> 0, commits |-> 0]
    /\ printed' = <<>>
    /\ call' = 0
    /\ pc' = "connect"
    /\ UNCHANGED <<inputs, db, tx, raised, all_files, i, locals>>

Next ==
    \/ Connect
    \/ ProcessData
    \/ ForFile
    \/ ProcessDataReturn
    \/ Commit
    \/ Close
    \/ ReadSongFile
    \/ InsertSong
    \/ InsertArtist
    \/ ReadLogFile
    \/ InsertTime
    \/ EndTimeLoop
    \/ InsertUser
    \/ EndUserLoop
    \/ LookupSong
    \/ InsertSongplay
    \/ EndSongplayLoop
    \/ Raise

Spec == Init /\ [][Next]_vars

NextTwice == Next \/ Rerun

SpecTwice == Init /\ [][NextTwice]_vars


(***************************************************************************)
(* Vocabulary of the properties, stated over the inputs and the statements *)
(* executed, apart from the transforms above.                              *)
(***************************************************************************)

Func == IF call \in 1..Len(MainCalls) THEN MainCalls[call].func ELSE None

InLogFile ==
    pc \in { "read_log", "time_loop", "user_loop", "songplay_loop",
             "songplay_insert" }

InSongFile == pc \in { "read_song", "insert_song", "insert_artist" }

\* The records of a log file whose page is NextSong, in file order.
Kept(file) == SelectSeq(file, LAMBDA r : r.page = "NextSong")

RECURSIVE KeptOfDir(_)
KeptOfDir(files) ==
    IF files = <<>> THEN <<>> ELSE Kept(Head(files)) \o KeptOfDir(Tail(files))

\* The batches this run's connection has committed.
RunBatches == SubSeq(db, Len(db) - conn.commits + 1, Len(db))

\* Files the earlier process_data calls of this run enumerated.
RECURSIVE FilesBefore(_)
FilesBefore(c) ==
    IF c <= 1 THEN 0
    ELSE Len(Walk(MainCalls[c - 1].filepath)) + FilesBefore(c - 1)

\* C1: at the end of process_log_file, for a file with K NextSong records,
\* the transaction holds exactly K time inserts, K user inserts and K
\* songplay inserts, the n-th of each carrying the data of the n-th NextSong
\* record of the file and of no other record.
C1_OnlyNextSongReachesInserts ==
    (pc = "commit" /\ Func = "process_log_file") =>
        LET kept == Kept(all_files[i])
            times == ArgsOf(tx, "time_table_insert")
            users == ArgsOf(tx, "user_table_insert")
            plays == ArgsOf(tx, "songplay_table_insert")
        IN  /\ Len(times) = Len(kept)
            /\ Len(users) = Len(kept)
            /\ Len(plays) = Len(kept)
            /\ \A n \in 1..Len(kept) :
                  /\ times[n][1] = ToDatetime(kept[n].ts)
                  /\ users[n] = <<kept[n].userId, kept[n].firstName,
                                  kept[n].lastName, kept[n].gender,
                                  kept[n].level>>
                  /\ plays[n][1] = ToDatetime(kept[n].ts)
                  /\ plays[n][2] = kept[n].userId
                  /\ plays[n][3] = kept[n].level
                  /\ plays[n][6] = kept[n].sessionId

C1_Witness ==
    /\ pc = "commit" /\ Func = "process_log_file"
    /\ Len(Kept(all_files[i])) >= 1
    /\ Len(Kept(all_files[i])) < Len(all_files[i])
    /\ Len(ArgsOf(tx, "songplay_table_insert")) >= 1

\* C2: every songplay insert of the file being processed carries an id pair
\* the lookup for its record returns, or (None, None) when the lookup
\* returns no row; never one id without the other; and the record whose
\* lookup is done gets its insert whatever the lookup returned.
C2_SongplayIdsFromLookup ==
    (Func = "process_log_file" /\ (InLogFile \/ pc = "commit")) =>
        LET kept == Kept(all_files[i])
            plays == ArgsOf(tx, "songplay_table_insert")
            catalog == Flatten(db) \o tx
        IN  /\ Len(plays) <= Len(kept)
            /\ (pc = "songplay_loop" => Len(plays) = k)
            /\ (pc = "commit" => Len(plays) = Len(kept))
            /\ \A n \in 1..Len(plays) :
                  LET found == SongSelect(catalog, kept[n].song,
                                          kept[n].artist, kept[n].length)
                  IN  /\ (plays[n][4] = None) <=> (plays[n][5] = None)
                      /\ IF found = {}
                         THEN plays[n][4] = None /\ plays[n][5] = None
                         ELSE <<plays[n][4], plays[n][5]>> \in found

C2_Witness ==
    /\ pc = "commit" /\ Func = "process_log_file"
    /\ \E n \in 1..Len(ArgsOf(tx, "songplay_table_insert")) :
          ArgsOf(tx, "songplay_table_insert")[n][4] = "S1"
    /\ \E n \in 1..Len(ArgsOf(tx, "songplay_table_insert")) :
          ArgsOf(tx, "songplay_table_insert")[n][4] = None

\* The statements one file contributes: a song and an artist insert of the
\* song file; of a log file, per NextSong record a time insert, a user
\* insert, a lookup and a songplay insert, and nothing else.
CoversFile(batch, file, func) ==
    IF func = "process_song_file"
    THEN /\ Len(batch) = 2
         /\ batch[1].stmt = "song_table_insert"
         /\ batch[1].args[1] = file.song_id
         /\ batch[2].stmt = "artist_table_insert"
         /\ batch[2].args[1] = file.artist_id
    ELSE LET kept == Kept(file)
             times == ArgsOf(batch, "time_table_insert")
             users == ArgsOf(batch, "user_table_insert")
             plays == ArgsOf(batch, "songplay_table_insert")
         IN  /\ Len(batch) = 4 * Len(kept)
             /\ Len(times) = Len(kept)
             /\ Len(users) = Len(kept)
             /\ Len(plays) = Len(kept)
             /\ Len(ArgsOf(batch, "song_select")) = Len(kept)
             /\ \A n \in 1..Len(kept) :
                   /\ times[n][1] = ToDatetime(kept[n].ts)
                   /\ users[n][1] = kept[n].userId
                   /\ users[n][5] = kept[n].level
                   /\ plays[n][1] = ToDatetime(kept[n].ts)
                   /\ plays[n][2] = kept[n].userId

\* C3: whenever process_data is at the head of its loop with i files done,
\* nothing is uncommitted, it has issued exactly i commits, the j-th of them
\* holds the statements of the j-th file and of no other, and it has printed
\* the counters 1..i after the count of files; inside a file, the commits
\* are those of the files before it.
C3_CommitPerFile ==
    /\ (At("for_file") =>
          /\ tx = <<>>
          /\ conn.commits = FilesBefore(call) + i
          /\ Len(db) >= conn.commits
          /\ \A j \in 1..i :
                CoversFile(db[Len(db) - i + j], all_files[j], Func)
          /\ Len(printed) >= i + 1
          /\ printed[Len(printed) - i].fmt = "{} files found in {}"
          /\ printed[Len(printed) - i].a = Len(all_files)
          /\ \A j \in 1..i :
                LET line == printed[Len(printed) - i + j]
                IN  /\ line.fmt = "{}/{} files processed."
                    /\ line.a = j
                    /\ line.b = Len(all_files))
    /\ ((~raised /\ (InSongFile \/ InLogFile \/ pc = "commit")) =>
          /\ i \in 1..Len(all_files)
          /\ conn.commits = FilesBefore(call) + i - 1)
    /\ (At("close") => conn.commits = Len(songDir) + Len(logDir))

C3_Witness ==
    /\ At("for_file")
    /\ Func = "process_log_file"
    /\ i = 2
    /\ i = Len(all_files)
    /\ Len(db[Len(db)]) > 0
    /\ Len(songDir) >= 1

\* C4: the step on which a call raises commits nothing and changes no row,
\* nothing runs after it, and what is committed then is exactly the files
\* before the failing one: the failing file has no commit.
C4_FailureStopsRun ==
    /\ [][(raised' /\ ~raised) => (db' = db /\ conn' = conn)]_vars
    /\ [][raised => UNCHANGED vars]_vars
    /\ [](raised =>
            /\ (pc = "connect" => conn.commits = 0 /\ conn.opened = 0)
            /\ (pc = "process_data" => conn.commits = FilesBefore(call))
            /\ ((InSongFile \/ InLogFile \/ pc = "commit") =>
                  /\ conn.commits = FilesBefore(call) + i - 1
                  /\ Len(RunBatches) = FilesBefore(call) + i - 1
                  /\ \A j \in 1..(i - 1) :
                        CoversFile(db[Len(db) - (i - 1) + j], all_files[j], Func))
            /\ conn.closed = 0)

C4_Witness ==
    /\ raised
    /\ Func = "process_log_file"
    /\ pc = "songplay_insert"
    /\ i = 2
    /\ Len(songDir) = 1
    /\ Len(db) = 2
    /\ Len(db[2]) > 0
    /\ tx # <<>>

\* C5: whenever a log file is being processed or statements of one are
\* uncommitted, this run has already committed every song file: its first
\* commits are the song files in order, so every row of the song directory
\* is in the committed catalogue the lookups read.
C5_CatalogBeforeLogs ==
    ((Func = "process_log_file" /\ (InLogFile \/ pc = "commit"))
       \/ ArgsOf(tx, "song_select") # <<>>
       \/ ArgsOf(tx, "time_table_insert") # <<>>) =>
        /\ conn.commits >= Len(songDir)
        /\ \A j \in 1..Len(songDir) :
              /\ CoversFile(RunBatches[j], songDir[j], "process_song_file")
              /\ Occurrences(<<songDir[j].song_id, songDir[j].title,
                               songDir[j].artist_id, songDir[j].year,
                               songDir[j].duration>>,
                             Table(Flatten(db), "song_table_insert")) >= 1
        /\ ArgsOf(tx, "song_table_insert") = <<>>
        /\ ArgsOf(tx, "artist_table_insert") = <<>>

C5_Witness ==
    /\ At("songplay_insert")
    /\ Len(songDir) = 2
    /\ ids[1] # None

\* The rows the first run of the script committed to a table.
FirstRunTable(insert) ==
    Table(Flatten(SubSeq(db, 1, Len(songDir) + Len(logDir))), insert)

\* C6: when the second run over the same directories is done, each of the
\* time, user and songplay tables holds twice the rows the first run left,
\* every row of the first run exactly twice as often as before.
C6_SecondRunDuplicates ==
    (At("done") /\ run = 2) =>
        \A t \in { "time_table_insert", "user_table_insert",
                   "songplay_table_insert" } :
            LET first == FirstRunTable(t)
                now == Table(Flatten(db), t)
            IN  /\ Len(now) = 2 * Len(first)
                /\ \A n \in 1..Len(first) :
                      Occurrences(first[n], now) = 2 * Occurrences(first[n], first)

C6_Witness ==
    /\ At("done")
    /\ run = 2
    /\ Len(FirstRunTable("songplay_table_insert")) = 2
    /\ Len(Table(Flatten(db), "songplay_table_insert")) = 4

\* The NextSong records of the log directory that match a song file on
\* title, artist name and duration.
Matching(recs) ==
    SelectSeq(recs, LAMBDA r : \E j \in 1..Len(songDir) :
        /\ songDir[j].title = r.song
        /\ songDir[j].artist_name = r.artist
        /\ songDir[j].duration = r.length)

\* C7: a run without failure over S song files and N NextSong records, M of
\* them matching a song file, leaves S song rows, S artist rows, N time
\* rows, N user rows and N songplay rows, M of these with both ids set and
\* N - M with both ids None.
C7_EndToEndCounts ==
    (At("done") /\ run = 1) =>
        LET rows == Flatten(db)
            plays == Table(rows, "songplay_table_insert")
            S == Len(songDir)
            N == Len(KeptOfDir(logDir))
            M == Len(Matching(KeptOfDir(logDir)))
        IN  /\ Len(Table(rows, "song_table_insert")) = S
            /\ Len(Table(rows, "artist_table_insert")) = S
            /\ Len(Table(rows, "time_table_insert")) = N
            /\ Len(Table(rows, "user_table_insert")) = N
            /\ Len(plays) = N
            /\ Cardinality({ n \in 1..Len(plays) :
                    plays[n][4] # None /\ plays[n][5] # None }) = M
            /\ Cardinality({ n \in 1..Len(plays) :
                    plays[n][4] = None /\ plays[n][5] = None }) = N - M

C7_Witness ==
    /\ At("done")
    /\ run = 1
    /\ Len(songDir) = 2
    /\ Len(KeptOfDir(logDir)) = 2
    /\ Len(Matching(KeptOfDir(logDir))) = 1

\* C8: a run opens the connection once; it closes it once, with every file
\* of both directories committed and nothing uncommitted; once it is closed
\* the run is done and no statement or commit follows.
C8_OneConnectionClosedLast ==
    /\ [](conn.opened <= 1 /\ conn.closed <= 1)
    /\ [](pc # "connect" => conn.opened = 1)
    /\ [](At("done") =>
            /\ conn.closed = 1
            /\ conn.commits = Len(songDir) + Len(logDir)
            /\ tx = <<>>)
    /\ [](conn.closed >= 1 => pc = "done" /\ ~raised)
    /\ [][conn.closed >= 1 => (tx' = tx /\ db' = db /\ conn' = conn)]_vars

C8_Witness ==
    /\ At("done")
    /\ conn.closed = 1
    /\ conn.commits = 3
    /\ Len(logDir) = 2

StmtRank(s) ==
    CASE s.stmt = "time_table_insert" -> 1
      [] s.stmt = "user_table_insert" -> 2
      [] OTHER -> 3

\* C9: every songplay insert of the open transaction comes after a time
\* insert of the same transaction with its timestamp, the time inserts of a
\* file coming before its user inserts and these before its lookups and
\* songplay inserts; and so does every committed songplay insert in its
\* committed file.
C9_SongplayAfterItsTime ==
    LET Ordered(stmts) ==
            /\ \A p \in 1..Len(stmts) :
                  stmts[p].stmt = "songplay_table_insert" =>
                     \E q \in 1..(p - 1) :
                        /\ stmts[q].stmt = "time_table_insert"
                        /\ stmts[q].args[1] = stmts[p].args[1]
            /\ \A p, q \in 1..Len(stmts) :
                  p < q => StmtRank(stmts[p]) <= StmtRank(stmts[q])
    IN  /\ Ordered(tx)
        /\ \A b \in 1..Len(db) : Ordered(db[b])

C9_Witness ==
    /\ At("songplay_loop")
    /\ k = 2
    /\ \E p \in 1..Len(tx) :
          /\ tx[p].stmt = "songplay_table_insert"
          /\ tx[p].args[1].millisecond = 1

\* The level of the last user row written for a user id.
StoredLevel(users, uid) ==
    LET at == { n \in 1..Len(users) : users[n][1] = uid }
        last == CHOOSE n \in at : \A m \in at : m <= n
    IN  users[last][5]

\* C10: with i log files done, the user rows of the run are one per kept
\* record of those files, in file and record order, so the last row of each
\* user id, the level an overwrite leaves, is that of the user's last kept
\* record.
C10_LastSeenWins ==
    (~raised /\ Func = "process_log_file" /\ pc = "for_file") =>
        LET users == Table(Flatten(RunBatches), "user_table_insert")
            kept == KeptOfDir(SubSeq(all_files, 1, i))
        IN  /\ Len(users) = Len(kept)
            /\ \A n \in 1..Len(kept) :
                  /\ users[n][1] = kept[n].userId
                  /\ users[n][5] = kept[n].level
            /\ \A n \in 1..Len(kept) :
                  (\A m \in (n + 1)..Len(kept) : kept[m].userId # kept[n].userId)
                     => StoredLevel(users, kept[n].userId) = kept[n].level

C10_Witness ==
    /\ At("for_file")
    /\ Func = "process_log_file"
    /\ i = 2
    /\ LET kept == KeptOfDir(all_files)
       IN  /\ Len(kept) = 2
           /\ kept[1].userId = kept[2].userId
           /\ kept[1].level = "paid"
           /\ kept[2].level = "free"
           /\ StoredLevel(Table(Flatten(RunBatches), "user_table_insert"),
                          kept[1].userId) = "free"

====
